---- MODULE Spec2Model ----
(***************************************************************************)
(* Model of GoldAppleParser (src/gold_apple_parser.py): the coroutine run, *)
(* the per-category coroutine parse_category, fetch_page, and the record   *)
(* built from one product of a page.                                       *)
(*                                                                         *)
(* Python values are encoded as follows.                                   *)
(*   - a dict is a function whose DOMAIN is the set of keys it has, so a   *)
(*     missing key (KeyError) is a key outside the DOMAIN;                 *)
(*   - an optional value (None or v) is a sequence of length at most one:  *)
(*     None is << >>, v is <<v>>;                                          *)
(*   - a string holding an image URL is a sequence of tokens, where the    *)
(*     tokens SCREEN and FORMAT stand for the character runs "${screen}"   *)
(*     and "${format}", DOT for "." and any other token for a run of       *)
(*     characters containing none of "$", "{", "}" and ".";                *)
(*   - JSON null where a string may stand is the string JsonNull, which is *)
(*     no string of the API;                                               *)
(*   - the output file is the sequence of the objects of its lines.        *)
(*                                                                         *)
(* A step of a task is what asyncio runs without interruption: from the    *)
(* resumption of the coroutine to its next await, return or exception.     *)
(* Spec is the whole run over up to MaxCats categories served from a fixed *)
(* catalogue; SpecCrawl is the run of one category served any page;        *)
(* SpecItem is the run of one category whose first page is one product,    *)
(* drawn from every shape of product and every image URL up to MaxUrlLen.  *)
(***************************************************************************)
EXTENDS Integers, Sequences, FiniteSets, TLC

\* ---------------------------------------------------------------- bounds
MaxCats == 2        \* at most this many lines in the category file
MaxProxies == 3     \* at most this many lines in the proxy file
MaxPages == 2       \* the API serves at most this many non-empty pages
MaxItems == 2       \* at most this many products on one page
MaxUrlLen == 6      \* at most this many tokens in an image URL

\* ------------------------------------------------------- Python encodings
None == << >>
Some(v) == <<v>>
JsonNull == "null (JSON)"

SCREEN == "${screen}"
FORMAT == "${format}"
DOT == "."

\* str.replace(old, new): every non-overlapping occurrence, left to right.
RECURSIVE str_replace(_, _, _)
str_replace(s, old, new) ==
    IF Len(s) < Len(old) THEN s
    ELSE IF SubSeq(s, 1, Len(old)) = old
         THEN new \o str_replace(SubSeq(s, Len(old) + 1, Len(s)), old, new)
         ELSE <<Head(s)>> \o str_replace(Tail(s), old, new)

\* str.replace(old, new, 1): the first occurrence only.
RECURSIVE str_replace_first(_, _, _)
str_replace_first(s, old, new) ==
    IF Len(s) < Len(old) THEN s
    ELSE IF SubSeq(s, 1, Len(old)) = old
         THEN new \o SubSeq(s, Len(old) + 1, Len(s))
         ELSE <<Head(s)>> \o str_replace_first(Tail(s), old, new)

\* A mutant of ResolveUrl: replace is called with count 1.
ResolveUrlOnce(url) ==
    str_replace_first(url, <<SCREEN, DOT, FORMAT>>, <<"fullhd", DOT, "jpg">>)

\* img["url"].replace("${screen}.${format}", "fullhd.jpg")
ResolveUrl(url) ==
    str_replace(url, <<SCREEN, DOT, FORMAT>>, <<"fullhd", DOT, "jpg">>)

\* dict.get(key, default)
DictGet(d, key, default) == IF key \in DOMAIN d THEN d[key] ELSE default

\* The default of lines 80-81, transliterated to ASCII.
NotSpecified == "Ne ukazan"

\* The subscripts of the dict literal of lines 77-85 raise KeyError for a
\* product that lacks a key they read.
RaisesKeyError(product) ==
    \/ "itemId" \notin DOMAIN product
    \/ "name" \notin DOMAIN product
    \/ "imageUrls" \notin DOMAIN product
    \/ \E k \in 1..Len(product["imageUrls"]) :
           "url" \notin DOMAIN product["imageUrls"][k]
    \/ "inStock" \notin DOMAIN product
    \/ "price" \notin DOMAIN product
    \/ "actual" \notin DOMAIN product["price"]
    \/ /\ product["price"]["actual"] # None
       /\ "amount" \notin DOMAIN product["price"]["actual"][1]

\* The list comprehension of line 82.
Photos(imageUrls) == [k \in 1..Len(imageUrls) |-> ResolveUrl(imageUrls[k]["url"])]

\* A mutant of Price: the amount is tested for truth along with the field.
PriceTruthyAmount(price) ==
    IF price["actual"] # None /\ price["actual"][1]["amount"] # 0
    THEN Some(price["actual"][1]["amount"])
    ELSE None

\* The conditional expression of line 84.
Price(price) ==
    IF price["actual"] # None THEN Some(price["actual"][1]["amount"]) ELSE None

\* The dict appended for one product (lines 77-85), when no subscript raises.
MakeRecord(product) ==
    [id |-> product["itemId"],
     name |-> product["name"],
     brand |-> DictGet(product, "brand", NotSpecified),
     type |-> DictGet(product, "productType", NotSpecified),
     photos |-> Photos(product["imageUrls"]),
     in_stock |-> product["inStock"],
     price |-> Price(product["price"])]

\* ------------------------------------------------------------ the inputs
\* The lines of the category file and of the proxy file are prefixes of these.
AllCategories == <<"catA", "catB", "catC", "catD">>
AllProxies == <<"proxy1", "proxy2", "proxy3", "proxy4">>

\* What the output file holds before the run: a line of an earlier run.
OldOutput == <<[id |-> "old", name |-> "Old", brand |-> NotSpecified,
                type |-> NotSpecified, photos |-> << >>, in_stock |-> TRUE,
                price |-> None]>>

\* The products the API may serve.  Shoe is the product of the scenario of the
\* specification; Bag has every optional key, a null actual price, an image
\* whose two placeholders are apart and an image without placeholders; Hat
\* lacks the price container.
Shoe ==
    [itemId |-> "x1", name |-> "Shoe",
     imageUrls |-> <<[url |-> <<"http://img/", SCREEN, DOT, FORMAT>>]>>,
     inStock |-> TRUE,
     price |-> [actual |-> Some([amount |-> 100])]]
Bag ==
    [itemId |-> "x2", name |-> "Bag", brand |-> "Acme", productType |-> "bag",
     imageUrls |-> <<[url |-> <<"http://img/", SCREEN, "/b", DOT, FORMAT>>],
                     [url |-> <<"http://img/b", DOT, "png">>]>>,
     inStock |-> FALSE,
     price |-> [actual |-> None]]
Hat ==
    [itemId |-> "x3", name |-> "Hat",
     imageUrls |-> << >>,
     inStock |-> TRUE]
Products == {Shoe, Bag, Hat}

\* Every shape of product: each key present or not, and for a present key one
\* of the values below.  An image entry may lack "url", the price container
\* may lack "actual" (it has "regular" alone), and an actual price may lack
\* "amount".
ProductKeys ==
    {"itemId", "name", "brand", "productType", "imageUrls", "inStock", "price"}
Optional(values) == {None} \cup {Some(v) : v \in values}
ShapedProducts ==
    LET choices ==
            [itemId : Optional({"x1"}),
             name : Optional({"Shoe"}),
             brand : Optional({"Acme", "", JsonNull}),
             productType : Optional({"bag", "", JsonNull}),
             imageUrls :
                 Optional({<< >>,
                           <<[url |-> <<"http://img/", SCREEN, DOT, FORMAT>>]>>,
                           <<[url |-> <<"http://img/", SCREEN, DOT, FORMAT>>],
                             [url |-> <<"http://img/b", DOT, "png">>]>>,
                           <<[alt |-> "shoe"]>>}),
             inStock : Optional(BOOLEAN),
             price : Optional({[actual |-> None],
                               [actual |-> Some([amount |-> 0])],
                               [actual |-> Some([amount |-> 100])],
                               [actual |-> Some([currency |-> "RUB"])],
                               [regular |-> Some([amount |-> 100])]})]
    IN  {[k \in {key \in ProductKeys : c[key] # None} |-> c[k][1]] : c \in choices}

\* Every image URL of up to MaxUrlLen tokens, and Shoe with such a URL as its
\* one image.
UrlTokens == {SCREEN, DOT, FORMAT, "a"}
Urls == UNION {[1..n -> UrlTokens] : n \in 0..MaxUrlLen}
ShoeWithImage(url) == [Shoe EXCEPT !["imageUrls"] = <<[url |-> url]>>]

\* The product lists of a response body: up to MaxItems products.
Pages == UNION {[1..k -> Products] : k \in 0..MaxItems}

\* A catalogue for the runs of several categories: what page n of a category
\* holds when the API has it, and the same page as an incompatible API would
\* send it, its second product lacking the price container.
CatalogPage(category, n) ==
    IF category = AllCategories[1]
    THEN (IF n % 2 = 1 THEN <<Shoe, Bag>> ELSE <<Bag>>)
    ELSE IF category = AllCategories[2] THEN <<Bag, Shoe>>
    ELSE <<Shoe>>
MalformedPage(category, n) ==
    <<Head(CatalogPage(category, n)), Hat>> \o Tail(CatalogPage(category, n))

\* What session.get and response.json() can do with one request.
FailureKinds == {"non200", "nonjson", "transport"}
OkResponse(products) == [kind |-> "ok", products |-> products]
FailedResponse(kind) == [kind |-> kind, products |-> << >>]

\* ------------------------------------------------------------- the state
VARIABLES
    category_ids,   \* the lines of the category file
    proxies,        \* the lines of the proxy file
    output,         \* the lines of the output file
    opens,          \* how many times the output file was opened for writing
    run_pc,         \* where run is: "start", "gather", "done", "config_error", "raised"
    task_category,  \* per task of run's list tasks: the argument category_id
    task_proxy,     \* per task: the argument proxy
    pc,             \* per task: "pending", "awaiting", "returned", "raised", "cancelled"
    page_number,    \* per task: the local page_number
    results,        \* per task: the local results
    requests,       \* history, per task: the requests given to session.get
    received,       \* history, per task: what each request came back with
    log,            \* per task: the lines it printed
    finished        \* history: the tasks that returned or raised, in that order

files == <<category_ids, proxies>>
sink == <<output, opens>>
bindings == <<task_category, task_proxy>>
locals == <<pc, page_number, results>>
history == <<requests, received, log, finished>>
vars == <<files, sink, run_pc, bindings, locals, history>>

Tasks == 1..Len(pc)

Min(a, b) == IF a < b THEN a ELSE b

\* A mutant of Zip: every category is paired with the first proxy.
ZipFirst(xs, ys) == [i \in 1..Min(Len(xs), Len(ys)) |-> <<xs[i], ys[1]>>]

\* zip(category_ids, proxies): the pairs at equal positions, as many as the
\* shorter list has.
Zip(xs, ys) == [i \in 1..Min(Len(xs), Len(ys)) |-> <<xs[i], ys[i]>>]

\* for category_results in all_results: for item in category_results
RECURSIVE Chain(_)
Chain(lists) == IF lists = << >> THEN << >> ELSE Head(lists) \o Chain(Tail(lists))

\* --------------------------------------------------------- fetch_page
\* The value fetch_page returns for a response: the parsed body for status 200
\* with a JSON body, None otherwise.
fetch_page(response) ==
    IF response.kind = "ok"
    THEN Some([data |-> [products |-> response.products]])
    ELSE None

\* What fetch_page prints: the except clause is entered by an exception of
\* session.get or of response.json(), not by a status other than 200.
fetch_page_prints(response, proxy) ==
    IF response.kind \in {"transport", "nonjson"}
    THEN <<[line |-> "error", proxy |-> proxy, cause |-> response.kind]>>
    ELSE << >>

\* ------------------------------------------------------ parse_category
\* The request of line 73-54 and the line printed before it (line 72).
Request(i, page) ==
    [categoryId |-> task_category[i], pageNumber |-> page, proxy |-> task_proxy[i]]
PageLine(i, page) ==
    [line |-> "page", category |-> task_category[i], page |-> page,
     proxy |-> task_proxy[i]]

\* A mutant of EndOfData: only "not data" is tested.
EndOfDataNoneOnly(data) == data = None

\* The test of line 74.
EndOfData(data) == data = None \/ data[1]["data"]["products"] = << >>

\* A mutant of AppendRecords: results.insert(0, ...) instead of append.
RECURSIVE InsertRecords(_, _)
InsertRecords(res, products) ==
    IF products = << >> THEN [results |-> res, raised |-> FALSE]
    ELSE IF RaisesKeyError(Head(products)) THEN [results |-> res, raised |-> TRUE]
    ELSE InsertRecords(<<MakeRecord(Head(products))>> \o res, Tail(products))

\* The for loop of lines 76-85: the records appended until a product raises.
RECURSIVE AppendRecords(_, _)
AppendRecords(res, products) ==
    IF products = << >> THEN [results |-> res, raised |-> FALSE]
    ELSE IF RaisesKeyError(Head(products)) THEN [results |-> res, raised |-> TRUE]
    ELSE AppendRecords(Append(res, MakeRecord(Head(products))), Tail(products))

\* A mutant of TaskStart: pages are counted from 0.
TaskStartAtZero(i) ==
    /\ run_pc = "gather"
    /\ pc[i] = "pending"
    /\ pc' = [pc EXCEPT ![i] = "awaiting"]
    /\ page_number' = [page_number EXCEPT ![i] = 0]
    /\ results' = [results EXCEPT ![i] = << >>]
    /\ log' = [log EXCEPT ![i] = Append(@, PageLine(i, 0))]
    /\ requests' = [requests EXCEPT ![i] = Append(@, Request(i, 0))]
    /\ UNCHANGED <<files, sink, run_pc, bindings, received, finished>>

\* A task runs from its start to its first await: page_number = 1,
\* results = [], the line of page 1 and the request of page 1.
TaskStart(i) ==
    /\ run_pc = "gather"
    /\ pc[i] = "pending"
    /\ pc' = [pc EXCEPT ![i] = "awaiting"]
    /\ page_number' = [page_number EXCEPT ![i] = 1]
    /\ results' = [results EXCEPT ![i] = << >>]
    /\ log' = [log EXCEPT ![i] = Append(@, PageLine(i, 1))]
    /\ requests' = [requests EXCEPT ![i] = Append(@, Request(i, 1))]
    /\ UNCHANGED <<files, sink, run_pc, bindings, received, finished>>

\* A mutant of TaskStep: line 86 is missing, the same page is asked again.
TaskStepSamePage(i, response, data, printed) ==
    LET body == AppendRecords(results[i], data[1]["data"]["products"])
        next == page_number[i]
    IN  /\ run_pc = "gather"
        /\ pc[i] = "awaiting"
        /\ received' = [received EXCEPT ![i] = Append(@, response)]
        /\ IF EndOfData(data)
           THEN /\ pc' = [pc EXCEPT ![i] = "returned"]
                /\ log' = [log EXCEPT ![i] = @ \o printed]
                /\ finished' = Append(finished, i)
                /\ UNCHANGED <<page_number, results, requests>>
           ELSE IF body.raised
           THEN /\ pc' = [pc EXCEPT ![i] = "raised"]
                /\ results' = [results EXCEPT ![i] = body.results]
                /\ log' = [log EXCEPT ![i] = @ \o printed]
                /\ finished' = Append(finished, i)
                /\ UNCHANGED <<page_number, requests>>
           ELSE /\ results' = [results EXCEPT ![i] = body.results]
                /\ page_number' = [page_number EXCEPT ![i] = next]
                /\ log' = [log EXCEPT ![i] = Append(@ \o printed, PageLine(i, next))]
                /\ requests' = [requests EXCEPT ![i] = Append(@, Request(i, next))]
                /\ UNCHANGED <<pc, finished>>
        /\ UNCHANGED <<files, sink, run_pc, bindings>>

\* A task is resumed with the value data of fetch_page and runs to its next
\* await (lines 74-86, 72-73), to its return (lines 75, 87) or to the KeyError
\* that ends it.
TaskStep(i, response, data, printed) ==
    LET body == AppendRecords(results[i], data[1]["data"]["products"])
        next == page_number[i] + 1
    IN  /\ run_pc = "gather"
        /\ pc[i] = "awaiting"
        /\ received' = [received EXCEPT ![i] = Append(@, response)]
        /\ IF EndOfData(data)
           THEN /\ pc' = [pc EXCEPT ![i] = "returned"]
                /\ log' = [log EXCEPT ![i] = @ \o printed]
                /\ finished' = Append(finished, i)
                /\ UNCHANGED <<page_number, results, requests>>
           ELSE IF body.raised
           THEN /\ pc' = [pc EXCEPT ![i] = "raised"]
                /\ results' = [results EXCEPT ![i] = body.results]
                /\ log' = [log EXCEPT ![i] = @ \o printed]
                /\ finished' = Append(finished, i)
                /\ UNCHANGED <<page_number, requests>>
           ELSE /\ results' = [results EXCEPT ![i] = body.results]
                /\ page_number' = [page_number EXCEPT ![i] = next]
                /\ log' = [log EXCEPT ![i] = Append(@ \o printed, PageLine(i, next))]
                /\ requests' = [requests EXCEPT ![i] = Append(@, Request(i, next))]
                /\ UNCHANGED <<pc, finished>>
        /\ UNCHANGED <<files, sink, run_pc, bindings>>

\* A mutant of Resume: a failed request is sent again.
ResumeRetrying(i, response) ==
    IF response.kind \in FailureKinds
    THEN /\ run_pc = "gather"
         /\ pc[i] = "awaiting"
         /\ Len(requests[i]) <= MaxPages + 1
         /\ received' = [received EXCEPT ![i] = Append(@, response)]
         /\ requests' = [requests EXCEPT ![i] = Append(@, Request(i, page_number[i]))]
         /\ UNCHANGED <<files, sink, run_pc, bindings, locals, log, finished>>
    ELSE TaskStep(i, response, fetch_page(response), << >>)

\* A mutant of Resume: fetch_page has no try/except, so the exception of
\* session.get or response.json() leaves parse_category.
ResumeUncaught(i, response) ==
    IF response.kind \in {"transport", "nonjson"}
    THEN /\ run_pc = "gather"
         /\ pc[i] = "awaiting"
         /\ received' = [received EXCEPT ![i] = Append(@, response)]
         /\ pc' = [pc EXCEPT ![i] = "raised"]
         /\ finished' = Append(finished, i)
         /\ UNCHANGED <<files, sink, run_pc, bindings, page_number, results,
                        requests, log>>
    ELSE TaskStep(i, response, fetch_page(response), << >>)

\* The await of line 73: fetch_page turns the outcome of the request into
\* data, printing in its except clause, and the loop goes on with it.
Resume(i, response) ==
    TaskStep(i, response, fetch_page(response),
             fetch_page_prints(response, task_proxy[i]))

\* The request fails: a status other than 200, a body that is not JSON, or an
\* exception of the transport.
FetchFailure(i) ==
    \E kind \in FailureKinds : Resume(i, FailedResponse(kind))

\* The request is answered with status 200 and a product list; the API has
\* no more than MaxPages non-empty pages.
PageServed(i) ==
    \E products \in Pages :
        /\ products # << >> => page_number[i] <= MaxPages
        /\ Resume(i, OkResponse(products))

\* The request is answered with status 200 from a catalogue that is the same
\* whenever it is asked: the page of the catalogue, the same page with a
\* malformed product in second place, or an empty list where the category ends.
CatalogServed(i) ==
    \E products \in {<< >>,
                      CatalogPage(task_category[i], page_number[i]),
                      MalformedPage(task_category[i], page_number[i])} :
        /\ products # << >> => page_number[i] <= MaxPages
        /\ Resume(i, OkResponse(products))

\* The first request is answered with status 200 and one product of any
\* shape, the later ones with an empty list.
ItemServed(i) ==
    \/ /\ page_number[i] = 1
       /\ \E p \in ShapedProducts : Resume(i, OkResponse(<<p>>))
    \/ Resume(i, OkResponse(<< >>))

\* The first request is answered with status 200 and Shoe with one image of
\* any URL.
TemplateServed(i) ==
    /\ page_number[i] = 1
    /\ \E url \in Urls : Resume(i, OkResponse(<<ShoeWithImage(url)>>))

\* ------------------------------------------------------------------ run
\* A mutant of RunConfigError: the output file is opened with mode "w" before
\* the test of line 100.
RunConfigErrorTruncating ==
    /\ run_pc = "start"
    /\ Len(proxies) < Len(category_ids)
    /\ run_pc' = "config_error"
    /\ output' = << >>
    /\ opens' = opens + 1
    /\ UNCHANGED <<files, bindings, locals, history>>

\* Lines 94-102: fewer proxies than categories.
RunConfigError ==
    /\ run_pc = "start"
    /\ Len(proxies) < Len(category_ids)
    /\ run_pc' = "config_error"
    /\ UNCHANGED <<files, sink, bindings, locals, history>>

\* A mutant of RunLaunch: the test of line 100 is missing.
RunLaunchUnchecked ==
    LET pairs == Zip(category_ids, proxies)
    IN  /\ run_pc = "start"
        /\ run_pc' = "gather"
        /\ task_category' = [i \in DOMAIN pairs |-> pairs[i][1]]
        /\ task_proxy' = [i \in DOMAIN pairs |-> pairs[i][2]]
        /\ pc' = [i \in DOMAIN pairs |-> "pending"]
        /\ page_number' = [i \in DOMAIN pairs |-> 0]
        /\ results' = [i \in DOMAIN pairs |-> << >>]
        /\ requests' = [i \in DOMAIN pairs |-> << >>]
        /\ received' = [i \in DOMAIN pairs |-> << >>]
        /\ log' = [i \in DOMAIN pairs |-> << >>]
        /\ finished' = << >>
        /\ UNCHANGED <<files, sink>>

\* Lines 104-109: one coroutine per pair of zip, handed to asyncio.gather.
RunLaunch ==
    LET pairs == Zip(category_ids, proxies)
    IN  /\ run_pc = "start"
        /\ ~(Len(proxies) < Len(category_ids))
        /\ run_pc' = "gather"
        /\ task_category' = [i \in DOMAIN pairs |-> pairs[i][1]]
        /\ task_proxy' = [i \in DOMAIN pairs |-> pairs[i][2]]
        /\ pc' = [i \in DOMAIN pairs |-> "pending"]
        /\ page_number' = [i \in DOMAIN pairs |-> 0]
        /\ results' = [i \in DOMAIN pairs |-> << >>]
        /\ requests' = [i \in DOMAIN pairs |-> << >>]
        /\ received' = [i \in DOMAIN pairs |-> << >>]
        /\ log' = [i \in DOMAIN pairs |-> << >>]
        /\ finished' = << >>
        /\ UNCHANGED <<files, sink>>

\* A mutant of Gather: the return values in the order the tasks finished.
GatherAsCompleted(res) == [k \in 1..Len(finished) |-> res[finished[k]]]

\* asyncio.gather(*tasks) without return_exceptions: the list of the tasks'
\* return values, in the order of tasks.
Gather(res) == res

\* A mutant of RunWrite: run waits for the first task only
\* (asyncio.wait with FIRST_COMPLETED) and writes what has returned.
RunWriteFirstCompleted ==
    /\ run_pc = "gather"
    /\ \E i \in Tasks : pc[i] = "returned"
    /\ output' = Chain([i \in Tasks |-> IF pc[i] = "returned" THEN results[i]
                                                            ELSE << >>])
    /\ opens' = opens + 1
    /\ run_pc' = "done"
    /\ UNCHANGED <<files, bindings, locals, history>>

\* Lines 109-116: every task has returned; the file is opened with mode "w"
\* and one line is written per record.
RunWrite ==
    /\ run_pc = "gather"
    /\ \A i \in Tasks : pc[i] = "returned"
    /\ output' = Chain(Gather(results))
    /\ opens' = opens + 1
    /\ run_pc' = "done"
    /\ UNCHANGED <<files, bindings, locals, history>>

\* Line 109 when a task has raised: gather hands the first exception to run,
\* nothing after line 109 is executed, and asyncio.run (line 124) cancels the
\* tasks that have not finished.
RunRaise ==
    /\ run_pc = "gather"
    /\ \E i \in Tasks : pc[i] = "raised"
    /\ run_pc' = "raised"
    /\ pc' = [i \in Tasks |-> IF pc[i] \in {"pending", "awaiting"}
                              THEN "cancelled" ELSE pc[i]]
    /\ UNCHANGED <<files, sink, bindings, page_number, results, history>>

\* -------------------------------------------------------- specification
Init ==
    /\ \E n \in 0..MaxCats : category_ids = SubSeq(AllCategories, 1, n)
    /\ \E m \in 0..MaxProxies : proxies = SubSeq(AllProxies, 1, m)
    /\ output = OldOutput
    /\ opens = 0
    /\ run_pc = "start"
    /\ task_category = << >>
    /\ task_proxy = << >>
    /\ pc = << >>
    /\ page_number = << >>
    /\ results = << >>
    /\ requests = << >>
    /\ received = << >>
    /\ log = << >>
    /\ finished = << >>

Next ==
    \/ RunConfigError
    \/ RunLaunch
    \/ \E i \in Tasks : TaskStart(i)
    \/ \E i \in Tasks : FetchFailure(i)
    \/ \E i \in Tasks : CatalogServed(i)
    \/ RunWrite
    \/ RunRaise

Spec == Init /\ [][Next]_vars

\* The run of one category with one proxy, parse_category on its own, served
\* any product list of Pages at every request.
InitCrawl ==
    /\ Init
    /\ Len(category_ids) = 1
    /\ Len(proxies) = 1

NextCrawl ==
    \/ RunLaunch
    \/ \E i \in Tasks : TaskStart(i)
    \/ \E i \in Tasks : FetchFailure(i)
    \/ \E i \in Tasks : PageServed(i)
    \/ RunWrite
    \/ RunRaise

\* The event loop goes on running what is ready, and every request comes back:
\* a step that can be taken is taken.
SpecFair == Init /\ [][Next]_vars /\ WF_vars(Next)

SpecCrawl == InitCrawl /\ [][NextCrawl]_vars

\* The run of one category with one proxy whose first page is one product.
NextItem ==
    \/ RunLaunch
    \/ \E i \in Tasks : TaskStart(i)
    \/ \E i \in Tasks : ItemServed(i)
    \/ \E i \in Tasks : TemplateServed(i)
    \/ RunWrite
    \/ RunRaise

SpecItem == InitCrawl /\ [][NextItem]_vars

\* ------------------------------------------------------------ properties
Last(seq) == seq[Len(seq)]

\* The number of products a sequence of responses carried.
RECURSIVE ItemCount(_)
ItemCount(responses) ==
    IF responses = << >> THEN 0
    ELSE Len(Head(responses).products) + ItemCount(Tail(responses))

\* The n-th product of a sequence of responses, counting through the pages in
\* the order they came and through each page in the order of its list.
RECURSIVE ItemAt(_, _)
ItemAt(responses, n) ==
    IF n <= Len(Head(responses).products)
    THEN Head(responses).products[n]
    ELSE ItemAt(Tail(responses), n - Len(Head(responses).products))

\* The number of records of the tasks before task i.
RECURSIVE Offset(_)
Offset(i) == IF i <= 1 THEN 0 ELSE Offset(i - 1) + Len(results[i - 1])

\* The response is a failed fetch; the response is a page without products.
IsFailure(response) == response.kind \in FailureKinds
IsEmptyPage(response) == response.kind = "ok" /\ response.products = << >>

\* C1: when run has written the file, its lines are the records of the first
\* category, then those of the second, and so on in the order of the category
\* file, each category's records being one per product its own requests were
\* served, in the order served, whatever the order the tasks finished in.
C1_OutputGroupedInInputOrder ==
    run_pc = "done" =>
        /\ Len(pc) = Len(category_ids)
        /\ Len(output) = Offset(Len(category_ids) + 1)
        /\ \A i \in 1..Len(category_ids) :
               /\ task_category[i] = category_ids[i]
               /\ Len(results[i]) = ItemCount(received[i])
               /\ \A k \in 1..Len(results[i]) :
                      output[Offset(i) + k] = MakeRecord(ItemAt(received[i], k))

\* C1 happens: two categories, the second finished first, and both have
\* records, not the same ones, in the written file.
C1_Witness ==
    /\ run_pc = "done"
    /\ Len(category_ids) = 2
    /\ finished = <<2, 1>>
    /\ results[1] # << >>
    /\ results[2] # << >>
    /\ results[1] # results[2]
    /\ Len(received[1]) = 3
    /\ Len(received[2]) = 2

\* C2: with fewer proxies than categories run stops at the test: no task is
\* made, no request is sent for any category.
C2_NoFetchOnConfigError ==
    Len(proxies) < Len(category_ids) =>
        /\ run_pc \in {"start", "config_error"}
        /\ pc = << >>
        /\ requests = << >>

\* C2 happens: two categories and one proxy, and run has returned on the test.
C2_Witness ==
    /\ run_pc = "config_error"
    /\ Len(category_ids) = 2
    /\ Len(proxies) = 1

\* C3: when a product of a served page lacks a required key, the crawl ends
\* and, once run is over, the records it had before that product are in the
\* written file as that category's records.
C3_PartialResultsWritten ==
    (run_pc \notin {"start", "gather"} /\ \E i \in Tasks : pc[i] = "raised") =>
        /\ run_pc = "done"
        /\ \A i \in Tasks :
               pc[i] = "raised" =>
                   SubSeq(output, Offset(i) + 1, Offset(i) + Len(results[i]))
                       = results[i]

\* C4: once the test of the proxies has passed, run ends only when every
\* crawl has ended by itself, none cancelled, and it ends having written the
\* file with the records of every crawl that returned.
C4_RunJoinsAllAndWrites ==
    /\ \A i \in Tasks : pc[i] # "cancelled"
    /\ (run_pc \notin {"start", "gather", "config_error"}) =>
           /\ run_pc = "done"
           /\ \A i \in Tasks :
                  pc[i] = "returned" =>
                      SubSeq(output, Offset(i) + 1, Offset(i) + Len(results[i]))
                          = results[i]

\* C5: when the fetch of page n fails, the task returns (no exception), it has
\* sent the requests of pages 1..n and no other, and what it returns is one
\* record per product of pages 1..n-1.
C5_FetchFailureEndsCrawl ==
    \A i \in Tasks :
        (received[i] # << >> /\ IsFailure(Last(received[i]))) =>
            /\ pc[i] = "returned"
            /\ Len(requests[i]) = Len(received[i])
            /\ \A k \in 1..Len(requests[i]) : requests[i][k].pageNumber = k
            /\ Len(results[i]) = ItemCount(received[i])
            /\ \A k \in 1..Len(results[i]) :
                   results[i][k] = MakeRecord(ItemAt(received[i], k))

\* C5 happens: after two pages with products the fetch of page 3 failed.
C5_Witness ==
    \E i \in Tasks :
        /\ Len(received[i]) = 3
        /\ Last(received[i]).kind = "nonjson"
        /\ Len(results[i]) >= 3

\* C6: a failed fetch of one task changes nothing of another task: in the step
\* that brings a failure to task j, every other task keeps its records, its
\* page number, its requests and its place; and a task is cancelled only when
\* some task was ended by a product of a served page, never by a failed fetch.
C6_FetchFailureStaysLocal ==
    [][\A j \in Tasks :
          /\ (/\ Len(received'[j]) > Len(received[j])
              /\ IsFailure(Last(received'[j])))
             => \A i \in Tasks \ {j} :
                    /\ results'[i] = results[i]
                    /\ page_number'[i] = page_number[i]
                    /\ requests'[i] = requests[i]
                    /\ received'[i] = received[i]
                    /\ pc'[i] = pc[i]
          /\ (pc'[j] = "cancelled" /\ pc[j] # "cancelled")
             => \E i \in Tasks :
                    /\ pc[i] = "raised"
                    /\ ~IsFailure(Last(received[i]))]_vars

\* C6 happens: the first request of task 1 failed and task 2 went on to
\* collect records and return them.
C6_Witness ==
    /\ Len(pc) = 2
    /\ pc[1] = "returned"
    /\ Len(received[1]) = 1
    /\ IsFailure(received[1][1])
    /\ pc[2] = "returned"
    /\ Len(results[2]) >= 2
    /\ finished = <<1, 2>>

\* C7: a category whose first page has no products returns no records and has
\* sent one request, that of page 1.
C7_EmptyFirstPage ==
    \A i \in Tasks :
        (received[i] # << >> /\ IsEmptyPage(received[i][1])) =>
            /\ pc[i] = "returned"
            /\ results[i] = << >>
            /\ Len(requests[i]) = 1
            /\ requests[i][1].pageNumber = 1

\* C7 happens: the first page was empty and run has written the file.
C7_Witness ==
    /\ run_pc = "done"
    /\ \E i \in Tasks : received[i] = <<OkResponse(<< >>)>>

C9_OneRecordPerItemInOrder ==
    \A i \in Tasks :
        pc[i] = "returned" =>
            LET pages == SubSeq(received[i], 1, Len(received[i]) - 1)
            IN  /\ \A k \in 1..Len(pages) : pages[k].products # << >>
                /\ IsFailure(Last(received[i])) \/ IsEmptyPage(Last(received[i]))
                /\ Len(results[i]) = ItemCount(pages)
                /\ \A n \in 1..Len(results[i]) :
                       results[i][n] = MakeRecord(ItemAt(pages, n))

\* C9 happens: two pages of two different products each, then an empty page.
C9_Witness ==
    \E i \in Tasks :
        /\ pc[i] = "returned"
        /\ Len(received[i]) = 3
        /\ IsEmptyPage(received[i][3])
        /\ received[i][1].products = <<Shoe, Bag>>
        /\ received[i][2].products = <<Bag, Shoe>>

\* C10: no photo of a written record holds a placeholder, and a written record
\* of a product has one photo per image entry.
HasPlaceholder(url) == \E k \in 1..Len(url) : url[k] \in {SCREEN, FORMAT}
C10_PhotosResolved ==
    run_pc = "done" =>
        \A n \in 1..Len(output) :
            \A k \in 1..Len(output[n].photos) : ~HasPlaceholder(output[n].photos[k])

\* C11: the output file is touched only after the join: while a task has not
\* started or is waiting for a page the file is as it was before the run and
\* has not been opened, and it is opened for writing at most once in a run.
C11_WrittenOnlyAfterJoin ==
    /\ opens <= 1
    /\ (\E i \in Tasks : pc[i] \in {"pending", "awaiting"}) =>
           (opens = 0 /\ output = OldOutput)
    /\ (opens = 1 \/ output # OldOutput) =>
           (run_pc = "done" /\ \A i \in Tasks : pc[i] = "returned")

\* C11 happens: two categories were crawled, the file was opened once and
\* holds their records.
C11_Witness ==
    /\ run_pc = "done"
    /\ Len(pc) = 2
    /\ opens = 1
    /\ Len(output) >= 3
    /\ results[1] # << >>
    /\ results[2] # << >>

\* The keys the specification calls required, and the one product of the
\* first page of task i.
RequiredKeys == {"itemId", "name", "inStock", "imageUrls", "price"}
FirstProduct(i) == received[i][1].products[1]
GotOneProduct(i) == received[i] # << >> /\ Len(received[i][1].products) = 1

\* C12: for a product that has every required key the task does not raise and
\* has one record for it, whose brand is the default when the product has no
\* brand, whose type is the default when it has no type, and whose brand and
\* type are neither empty nor null.
C12_TotalOnOptionalFields ==
    \A i \in Tasks :
        (GotOneProduct(i) /\ RequiredKeys \subseteq DOMAIN FirstProduct(i)) =>
            /\ pc[i] # "raised"
            /\ Len(results[i]) = 1
            /\ "brand" \notin DOMAIN FirstProduct(i) => results[i][1].brand = NotSpecified
            /\ "productType" \notin DOMAIN FirstProduct(i)
                   => results[i][1].type = NotSpecified
            /\ results[i][1].brand \notin {"", JsonNull}
            /\ results[i][1].type \notin {"", JsonNull}

C15_ResolveIdempotent ==
    \A i \in Tasks :
        (GotOneProduct(i) /\ Len(results[i]) = 1) =>
            \A k \in 1..Len(FirstProduct(i)["imageUrls"]) :
                LET url == FirstProduct(i)["imageUrls"][k]["url"]
                    photo == results[i][1].photos[k]
                IN  /\ ResolveUrl(photo) = photo
                    /\ ~HasPlaceholder(url) => photo = url

\* C15 happens: a URL where a placeholder stands on each side of the text
\* that is replaced, so that the photo still holds both placeholders.
C15_Witness ==
    \E i \in Tasks :
        /\ GotOneProduct(i)
        /\ Len(results[i]) = 1
        /\ FirstProduct(i)["imageUrls"]
               = <<[url |-> <<SCREEN, SCREEN, DOT, FORMAT, DOT, FORMAT>>]>>
        /\ results[i][1].photos
               = <<(<<SCREEN, "fullhd", DOT, "jpg", DOT, FORMAT>>)>>

\* C14: when a fetch has failed, whatever the kind of failure, the last line
\* the task printed before it ended is an error line that names the task's
\* proxy and the cause.
C14_FailureLogged ==
    \A i \in Tasks :
        (received[i] # << >> /\ IsFailure(Last(received[i]))) =>
            /\ log[i] # << >>
            /\ Last(log[i]) = [line |-> "error", proxy |-> task_proxy[i],
                               cause |-> Last(received[i]).kind]

\* The requests of task i that have not been answered.
InFlight(i) == Len(requests[i]) - Len(received[i])

\* The number of responses that carried products.
RECURSIVE NonEmptyCount(_)
NonEmptyCount(responses) ==
    IF responses = << >> THEN 0
    ELSE (IF Head(responses).products # << >> THEN 1 ELSE 0)
         + NonEmptyCount(Tail(responses))

\* C16: the k-th request of a task is for page k; a task has at most one
\* request unanswered, one while it waits and none once it has ended; and
\* while the request of page n+1 is out, pages 1..n have been received with
\* products and every one of their products has its record in results.
C16_PagesSequential ==
    \A i \in Tasks :
        /\ \A k \in 1..Len(requests[i]) : requests[i][k].pageNumber = k
        /\ InFlight(i) \in {0, 1}
        /\ pc[i] \in {"returned", "raised"} => InFlight(i) = 0
        /\ pc[i] = "awaiting" =>
               /\ InFlight(i) = 1
               /\ page_number[i] = Len(requests[i])
               /\ \A k \in 1..Len(received[i]) : received[i][k].products # << >>
               /\ Len(results[i]) = ItemCount(received[i])
               /\ \A n \in 1..Len(results[i]) :
                      results[i][n] = MakeRecord(ItemAt(received[i], n))

\* C16 happens: the request of page 3 is out and the four products of pages 1
\* and 2 are in results.
C16_Witness ==
    \E i \in Tasks :
        /\ pc[i] = "awaiting"
        /\ Len(requests[i]) = 3
        /\ Len(received[i]) = 2
        /\ Len(results[i]) = 4

\* C17: over the whole run no page of a category is requested twice, a failed
\* one neither; a task has sent at most one request more than it received
\* pages with products, and exactly one more when it has returned.
C17_NoRetry ==
    /\ \A i, j \in Tasks :
           \A k \in 1..Len(requests[i]), l \in 1..Len(requests[j]) :
               (/\ requests[i][k].categoryId = requests[j][l].categoryId
                /\ requests[i][k].pageNumber = requests[j][l].pageNumber)
               => (i = j /\ k = l)
    /\ \A i \in Tasks :
           /\ Len(requests[i]) <= NonEmptyCount(received[i]) + 1
           /\ pc[i] = "returned" =>
                  Len(requests[i]) = NonEmptyCount(received[i]) + 1

\* C17 happens: of two categories one has returned on the failed fetch of its
\* page 3, having sent three requests.
C17_Witness ==
    /\ Len(pc) = 2
    /\ \E i \in Tasks :
           /\ pc[i] = "returned"
           /\ Len(requests[i]) = 3
           /\ IsFailure(received[i][3])
           /\ NonEmptyCount(received[i]) = 2

\* C18: no crawl is cancelled, and a launched run stops only when every crawl
\* has returned and run has written the file: whenever nothing more can
\* happen after the launch, that is where it is.
C18_RunCompletes ==
    /\ \A i \in Tasks : pc[i] # "cancelled"
    /\ (run_pc \notin {"start", "config_error"} /\ ~ENABLED Next) =>
           /\ run_pc = "done"
           /\ opens = 1
           /\ \A i \in Tasks : pc[i] = "returned"

\* C19: with fewer proxies than categories the output file is not opened and
\* holds what it held before the run, at the start and after run has returned.
C19_SinkUntouchedOnConfigError ==
    Len(proxies) < Len(category_ids) =>
        /\ opens = 0
        /\ output = OldOutput

\* C19 happens: run has returned on the test, and the file holds the line of
\* the earlier run.
C19_Witness ==
    /\ run_pc = "config_error"
    /\ Len(proxies) = 0
    /\ output # << >>
    /\ output[1].id = "old"

====
